---- MODULE Spec2Model ----
(***************************************************************************)
(* Model of src/app.py: the field registry and the physical columns of the *)
(* data table (init_db, ensure_column, the admin field handlers), the      *)
(* uploads and data tables (save_upload, save_data, load_data,             *)
(* delete_upload) and the frame functions of the import pipeline           *)
(* (parse_file, apply_mapping_rules, coerce_types, compute_totals_row,     *)
(* filter_df).                                                             *)
(*                                                                         *)
(* Field names are transliterated to ASCII: God, Mesyac, Kod_klienta,      *)
(* Artikul_Elta, Zakupki_kolvo, Prodazhi_kolvo, Yur_lico, Itogo stand for  *)
(* the Cyrillic names of the source.                                       *)
(***************************************************************************)
EXTENDS Integers, Sequences, FiniteSets, TLC

VARIABLES
    backend,      \* "sqlite" when DB_URL is unset, "postgres" otherwise
    registry,     \* table fields_registry: set of rows [field, field_type]
    columns,      \* physical columns of table data: set of [name, type]
    fields_list,  \* per session: the registry fields read by the running script
    pend,         \* per session: st.rerun() was called, the script starts again
    uploads,      \* table uploads: set of [id, uploaded_by]
    data,         \* table data: set of [id, upload_id, uploaded_by]
    seq,          \* AUTOINCREMENT / SERIAL counters: [uploads, data]
    pc,           \* per process: position inside a multi-statement function
    loc,          \* per process: local variables of the running function
    df,           \* the frame a frame function is applied to
    rules,        \* the mapping rules in application order
    filters,      \* filter_df's filters: sequence of [field, values]
    out,          \* the result of the last frame function
    ret           \* the outcome the last operation reported to its caller

schemaVars == <<registry, columns, fields_list, pend>>
uploadVars == <<uploads, data, seq>>
procVars == <<pc, loc>>
frameVars == <<df, rules, filters, out>>
vars == <<backend, registry, columns, fields_list, pend, uploads, data, seq,
          pc, loc, df, rules, filters, out, ret>>

Backends == {"sqlite", "postgres"}

(***************************************************************************)
(* Configuration of fields (src/app.py 74-107), restricted to one          *)
(* representative of each class: a protected identity field, a declared    *)
(* numeric business field and the text marker field.                       *)
(***************************************************************************)
TZ_FIELDS_31 == <<"God", "Zakupki_kolvo", "Itogo">>

DEFAULT_NUMERIC_FIELDS == {"Zakupki_kolvo", "Prodazhi_kolvo"}

IDENTITY_FIELDS == {"Kod_klienta", "Artikul_Elta", "God", "Mesyac"}

protected == {"id", "upload_id", "uploaded_by", "uploaded_at",
              "God", "Mesyac", "Kod_klienta"}

FieldTypes == {"TEXT", "REAL", "INTEGER"}

\* CREATE TABLE IF NOT EXISTS data(...) of init_db, per backend.
BaseColumns(b) ==
    IF b = "postgres"
    THEN { [name |-> "id", type |-> "SERIAL"],
           [name |-> "upload_id", type |-> "INTEGER"],
           [name |-> "uploaded_by", type |-> "VARCHAR"],
           [name |-> "uploaded_at", type |-> "TIMESTAMP"] }
    ELSE { [name |-> "id", type |-> "INTEGER"],
           [name |-> "upload_id", type |-> "INTEGER"],
           [name |-> "uploaded_by", type |-> "TEXT"],
           [name |-> "uploaded_at", type |-> "TEXT"] }

Range(s) == {s[i] : i \in DOMAIN s}

\* The tables are sets of rows: fields_registry has the primary key field, and
\* a SELECT without ORDER BY returns its rows in an order SQL leaves open.
RegFields(reg) == {r.field : r \in reg}

ColNames(cols) == {c.name : c \in cols}

RegType(reg, f) == (CHOOSE r \in reg : r.field = f).field_type

ColType(cols, c) == (CHOOSE r \in cols : r.name = c).type

(***************************************************************************)
(* Schema operations                                                       *)
(***************************************************************************)

\* ensure_column run alone.  sqlite: PRAGMA table_info, then ALTER TABLE ADD
\* COLUMN only when the name is not among the existing columns.  postgres:
\* ALTER TABLE ADD COLUMN, whose "already exists" error is swallowed.
ensure_column(cols, column, col_type) ==
    IF column \in ColNames(cols)
    THEN cols
    ELSE cols \cup {[name |-> column, type |-> col_type]}

\* init_db, registry seeding loop: INSERT each default field, a primary-key
\* error (the field is there already) is ignored.
RECURSIVE SeedRegistry(_, _)
SeedRegistry(reg, i) ==
    IF i > Len(TZ_FIELDS_31) THEN reg
    ELSE LET f == TZ_FIELDS_31[i]
             row == [field |-> f,
                     field_type |-> IF f \in DEFAULT_NUMERIC_FIELDS
                                    THEN "REAL" ELSE "TEXT"]
         IN SeedRegistry(IF f \in RegFields(reg) THEN reg ELSE reg \cup {row},
                         i + 1)

\* init_db, "for _, row in registry_df.iterrows(): ensure_column(...)": the
\* rows have distinct fields, so the order of the loop does not matter.
RECURSIVE EnsureRegistryColumns(_, _)
EnsureRegistryColumns(cols, reg) ==
    IF reg = {} THEN cols
    ELSE LET row == CHOOSE r \in reg : TRUE
         IN EnsureRegistryColumns(
                ensure_column(cols, row.field, row.field_type), reg \ {row})

init_db_registry(reg) == SeedRegistry(reg, 1)

\* The synchronisation as it would be if it also dropped the columns of
\* fields that are no longer registered.
init_db_columns_pruning(reg, cols) ==
    {c \in EnsureRegistryColumns(cols, init_db_registry(reg)) :
        c.name \in RegFields(init_db_registry(reg))
                      \cup {"id", "upload_id", "uploaded_by", "uploaded_at"}}

init_db_columns(reg, cols) == EnsureRegistryColumns(cols, init_db_registry(reg))

\* delete_field_registry as it would be if the DELETE removed nothing.
delete_field_registry_keep(reg, f) == reg

\* DELETE FROM fields_registry WHERE field=%s
delete_field_registry(reg, f) == {r \in reg : r.field # f}

\* INSERT INTO fields_registry(field, field_type, created_at)
insert_field(reg, f, t) == reg \cup {[field |-> f, field_type |-> t]}

RenameColumn(cols, old, new) ==
    {IF c.name = old THEN [name |-> new, type |-> c.type] ELSE c : c \in cols}

\* update_field_registry as it would be if the column were renamed on every
\* backend.
update_field_registry_renaming(b, reg, cols, old_field, new_field, new_type) ==
    IF /\ old_field \in RegFields(reg)
       /\ new_field # old_field
       /\ new_field \in RegFields(reg)
    THEN [registry |-> reg, columns |-> cols, raised |-> "IntegrityError"]
    ELSE [registry |-> {IF r.field = old_field
                        THEN [field |-> new_field, field_type |-> new_type]
                        ELSE r : r \in reg},
          columns |-> IF old_field \in ColNames(cols) /\ new_field \notin ColNames(cols)
                      THEN RenameColumn(cols, old_field, new_field)
                      ELSE cols,
          raised |-> "none"]

\* update_field_registry: the UPDATE statement (committed on its own by
\* execute_query), then on postgres ALTER TABLE data RENAME COLUMN.  The
\* UPDATE of a primary key to a value another row holds raises; an UPDATE
\* whose WHERE matches no row changes nothing and raises nothing.
update_field_registry(b, reg, cols, old_field, new_field, new_type) ==
    IF /\ old_field \in RegFields(reg)
       /\ new_field # old_field
       /\ new_field \in RegFields(reg)
    THEN [registry |-> reg, columns |-> cols, raised |-> "IntegrityError"]
    ELSE LET reg2 == {IF r.field = old_field
                      THEN [field |-> new_field, field_type |-> new_type]
                      ELSE r : r \in reg}
         IN IF old_field = new_field \/ b = "sqlite"
            THEN [registry |-> reg2, columns |-> cols, raised |-> "none"]
            ELSE IF /\ old_field \in ColNames(cols)
                    /\ new_field \notin ColNames(cols)
                 THEN [registry |-> reg2,
                       columns |-> RenameColumn(cols, old_field, new_field),
                       raised |-> "none"]
                 ELSE [registry |-> reg2, columns |-> cols,
                       raised |-> "ProgrammingError"]

(***************************************************************************)
(* Idle values of the parts of the state a specification does not use      *)
(***************************************************************************)
\* Two admin sessions.  The script of s1 can be interrupted between the
\* registry reads of its page and its button handler (fields_list holds what
\* it read); the script of s2 runs its reads and its handler in one piece.
Sessions == {"s1", "s2"}

Procs == {"p1", "p2"}

NoFrame == [cols |-> <<>>, rows |-> <<>>, raised |-> "none"]

NoRet == [op |-> "none", res |-> "none"]

SchemaInit ==
    /\ registry = init_db_registry({})
    /\ columns = init_db_columns({}, BaseColumns(backend))
    /\ fields_list = RegFields(registry)
    /\ pend = {}

UploadIdle ==
    /\ uploads = {}
    /\ data = {}
    /\ seq = [uploads |-> 0, data |-> 0]

ProcIdle ==
    /\ pc = [p \in Procs |-> "idle"]
    /\ loc = [p \in Procs |-> [op |-> "none"]]

FrameIdle ==
    /\ df = NoFrame
    /\ rules = <<>>
    /\ filters = <<>>
    /\ out = NoFrame

(***************************************************************************)
(* The admin field handlers (src/app.py 745-811) and the script start      *)
(***************************************************************************)
\* The names an admin types or picks in the model.  "X " is "X" with
\* surrounding whitespace, which .strip() removes.
FieldNames == {"God", "Itogo", "X"}

TypedNames == FieldNames \cup {"X "}

InputTypes == {"TEXT", "REAL"}

strip(name) == IF name = "X " THEN "X" ELSE name

\* What session s read from fields_registry when its script last ran
\* (registry_fields at line 714, fields_df at line 770).
View(s) == IF s = "s1" THEN fields_list ELSE RegFields(registry)

\* A script execution of session s up to the admin tab: init_db(), then the
\* registry reads of the page.  It is also the execution st.rerun() starts.
ScriptRun(s) ==
    /\ registry' = init_db_registry(registry)
    /\ columns' = init_db_columns(registry, columns)
    /\ fields_list' = IF s = "s1" THEN RegFields(registry') ELSE fields_list
    /\ pend' = pend \ {s}
    /\ ret' = [op |-> "init_db", res |-> "ok", s |-> s]
    /\ UNCHANGED <<backend, uploadVars, procVars, frameVars>>

\* "Add field" button.
AdminAddField(s, field_name, field_type) ==
    /\ s \notin pend
    /\ LET r == [op |-> "add_field", res |-> "", s |-> s,
                 field |-> field_name, type |-> field_type]
       IN IF field_name \in View(s)
          THEN /\ ret' = [r EXCEPT !.res = "exists"]
               /\ UNCHANGED schemaVars
          ELSE IF field_name \in RegFields(registry)
          THEN \* the INSERT violates the primary key and raises
               /\ ret' = [r EXCEPT !.res = "IntegrityError"]
               /\ UNCHANGED schemaVars
          ELSE /\ registry' = insert_field(registry, field_name, field_type)
               /\ columns' = ensure_column(columns, field_name, field_type)
               /\ pend' = pend \cup {s}
               /\ ret' = [r EXCEPT !.res = "ok"]
               /\ UNCHANGED fields_list
    /\ UNCHANGED <<backend, uploadVars, procVars, frameVars>>

\* "Delete field" button: field_to_edit is picked from fields_list.
AdminDeleteField(s, field_to_edit) ==
    /\ s \notin pend
    /\ field_to_edit \in View(s)
    /\ LET r == [op |-> "delete_field", res |-> "", s |-> s,
                 field |-> field_to_edit]
       IN IF field_to_edit \in protected
          THEN /\ ret' = [r EXCEPT !.res = "Protected"]
               /\ UNCHANGED schemaVars
          ELSE /\ registry' = delete_field_registry(registry, field_to_edit)
               /\ pend' = pend \cup {s}
               /\ ret' = [r EXCEPT !.res = "ok"]
               /\ UNCHANGED <<columns, fields_list>>
    /\ UNCHANGED <<backend, uploadVars, procVars, frameVars>>

\* "Update field" button: the checks use the typed name, the call its strip().
\* An exception of update_field_registry ends the script before st.rerun().
AdminRenameField(s, field_to_edit, new_field_name, new_field_type) ==
    /\ s \notin pend
    /\ field_to_edit \in View(s)
    /\ LET r == [op |-> "update_field", res |-> "", s |-> s,
                 old |-> field_to_edit, new |-> strip(new_field_name),
                 type |-> new_field_type,
                 found |-> field_to_edit \in RegFields(registry),
                 taken |-> strip(new_field_name) \in RegFields(registry)]
           u == update_field_registry(backend, registry, columns, field_to_edit,
                                      strip(new_field_name), new_field_type)
       IN IF /\ new_field_name # field_to_edit
             /\ new_field_name \in View(s)
          THEN /\ ret' = [r EXCEPT !.res = "exists"]
               /\ UNCHANGED schemaVars
          ELSE /\ registry' = u.registry
               /\ columns' = u.columns
               /\ ret' = [r EXCEPT !.res = IF u.raised = "none" THEN "ok"
                                           ELSE u.raised]
               /\ pend' = IF u.raised = "none" THEN pend \cup {s} ELSE pend
               /\ UNCHANGED fields_list
    /\ UNCHANGED <<backend, uploadVars, procVars, frameVars>>

InitSchema ==
    /\ backend \in Backends
    /\ SchemaInit
    /\ UploadIdle /\ ProcIdle /\ FrameIdle
    /\ ret = NoRet

NextSchema ==
    \/ \E s \in Sessions : ScriptRun(s)
    \/ \E s \in Sessions, f \in FieldNames, t \in InputTypes :
           AdminAddField(s, f, t)
    \/ \E s \in Sessions, f \in FieldNames : AdminDeleteField(s, f)
    \/ \E s \in Sessions, f \in FieldNames, n \in TypedNames, t \in InputTypes :
           AdminRenameField(s, f, n, t)

SpecSchema == InitSchema /\ [][NextSchema]_vars

\* Sequences of add-field and remove-field operations only (with the script
\* starts between them).
NextAddRemove ==
    \/ \E s \in Sessions : ScriptRun(s)
    \/ \E s \in Sessions, f \in FieldNames, t \in InputTypes :
           AdminAddField(s, f, t)
    \/ \E s \in Sessions, f \in FieldNames : AdminDeleteField(s, f)

SpecAddRemove == InitSchema /\ [][NextAddRemove]_vars

(***************************************************************************)
(* Claims about the schema                                                 *)
(***************************************************************************)

\* C1: after every prefix of a sequence of add-field and remove-field
\* operations, each field in fields_registry has a physical column in data
\* whose type equals the field's declared type.
C1_RegisteredFieldHasSameTypeColumn ==
    \A r \in registry :
        /\ r.field \in ColNames(columns)
        /\ ColType(columns, r.field) = r.field_type

\* The outcomes of the rename operation that report a failure to the caller.
RenameFailed(res) ==
    res \in {"NotFound", "Conflict", "exists", "IntegrityError", "ProgrammingError"}

\* C10: a rename whose old name is not in the registry fails (NotFound), a
\* rename whose new name is already in the registry and differs from the old
\* one fails (Conflict), and a failed rename leaves the registry and the
\* columns of data unchanged.
C10_RenameFailsWithoutEffect ==
    [][ ret'.op = "update_field" =>
          /\ ret'.old \notin RegFields(registry) =>
                 /\ RenameFailed(ret'.res)
                 /\ UNCHANGED <<registry, columns>>
          /\ (ret'.new \in RegFields(registry) /\ ret'.new # ret'.old) =>
                 /\ RenameFailed(ret'.res)
                 /\ UNCHANGED <<registry, columns>> ]_vars

(***************************************************************************)
(* Uploads and records                                                     *)
(***************************************************************************)
MaxUploads == 2

MaxRowsPerUpload == 2

\* The rows of table users: the seeded admin and two accounts of role user.
Users == { [email |-> "admin@local", role |-> "admin"],
           [email |-> "ann@x", role |-> "user"],
           [email |-> "bob@x", role |-> "user"] }

\* The principals load_data can be called for: the logged-in users, and a
\* role user with an empty (or missing, None) email.
NoEmail == ""

Principals == Users \cup {[email |-> NoEmail, role |-> "user"]}

\* save_upload run alone: INSERT INTO uploads, the new row's id is returned.
save_upload(ups, counters, uploaded_by) ==
    LET upload_id == counters.uploads + 1
    IN [uploads |-> ups \cup {[id |-> upload_id, uploaded_by |-> uploaded_by]},
        seq |-> [counters EXCEPT !.uploads = upload_id],
        upload_id |-> upload_id]

\* save_data, the loop over df.columns: ensure_column for each column of the
\* frame that the table lacks.
RECURSIVE EnsureFrameColumns(_, _)
EnsureFrameColumns(cols, names) ==
    IF names = {} THEN cols
    ELSE LET col == CHOOSE c \in names : TRUE
         IN EnsureFrameColumns(
                ensure_column(cols, col,
                              IF col \in DEFAULT_NUMERIC_FIELDS THEN "REAL"
                              ELSE "TEXT"),
                names \ {col})

\* save_data, to_sql(if_exists="append"): n rows with the audit attributes.
save_data(dat, counters, n, upload_id, uploaded_by) ==
    [data |-> dat \cup {[id |-> counters.data + k, upload_id |-> upload_id,
                         uploaded_by |-> uploaded_by] : k \in 1..n},
     seq |-> [counters EXCEPT !.data = counters.data + n]]

\* load_data
load_data(dat, user_email, role) ==
    IF role = "user" /\ user_email # NoEmail
    THEN {r \in dat : r.uploaded_by = user_email}
    ELSE dat

\* delete_upload without the ownership check of role user.
delete_upload_unchecked(ups, dat, upload_id, user_email, role) ==
    [res |-> TRUE,
     uploads |-> {u \in ups : u.id # upload_id},
     data |-> {r \in dat : r.upload_id # upload_id}]

\* delete_upload run alone.
delete_upload(ups, dat, upload_id, user_email, role) ==
    LET found == {u \in ups : u.id = upload_id}
    IN IF role = "user" /\ (found = {} \/ \A u \in found : u.uploaded_by # user_email)
       THEN [res |-> FALSE, uploads |-> ups, data |-> dat]
       ELSE [res |-> TRUE,
             uploads |-> {u \in ups : u.id # upload_id},
             data |-> {r \in dat : r.upload_id # upload_id}]

OwnerOf(ups, upload_id) ==
    IF \E u \in ups : u.id = upload_id
    THEN (CHOOSE u \in ups : u.id = upload_id).uploaded_by
    ELSE "none"

\* "Save to the database" button: save_upload, then save_data with the parsed
\* frame (its columns are the registry's fields) of n rows.
SaveHandler(user, n) ==
    /\ seq.uploads < MaxUploads
    /\ LET u == save_upload(uploads, seq, user.email)
           d == save_data(data, u.seq, n, u.upload_id, user.email)
       IN /\ uploads' = u.uploads
          /\ data' = d.data
          /\ seq' = d.seq
          /\ columns' = EnsureFrameColumns(columns, RegFields(registry))
          /\ ret' = [op |-> "save", res |-> u.upload_id, email |-> user.email]
    /\ UNCHANGED <<backend, registry, fields_list, pend, procVars, frameVars>>

\* "Delete" button of the dashboard: upload_to_delete is any number >= 1.
DeleteHandler(user, upload_to_delete) ==
    /\ LET d == delete_upload(uploads, data, upload_to_delete, user.email, user.role)
       IN /\ uploads' = d.uploads
          /\ data' = d.data
          /\ ret' = [op |-> "delete_upload", res |-> d.res,
                     id |-> upload_to_delete, email |-> user.email,
                     role |-> user.role,
                     owner |-> OwnerOf(uploads, upload_to_delete),
                     after_refusal |->
                         /\ ret.op = "delete_upload"
                         /\ ret.res = FALSE
                         /\ ret.id = upload_to_delete
                         /\ ret.owner # "none"]
    /\ UNCHANGED <<backend, schemaVars, seq, procVars, frameVars>>

\* A call of load_data.
LoadData(principal) ==
    /\ ret' = [op |-> "load_data", email |-> principal.email,
               role |-> principal.role,
               res |-> load_data(data, principal.email, principal.role)]
    /\ UNCHANGED <<backend, schemaVars, uploadVars, procVars, frameVars>>

InitUploads ==
    /\ backend \in Backends
    /\ SchemaInit
    /\ UploadIdle /\ ProcIdle /\ FrameIdle
    /\ ret = NoRet

NextUploads ==
    \/ \E u \in Users, n \in 0..MaxRowsPerUpload : SaveHandler(u, n)
    \/ \E u \in Users, i \in 1..MaxUploads : DeleteHandler(u, i)
    \/ \E p \in Principals : LoadData(p)

SpecUploads == InitUploads /\ [][NextUploads]_vars

(***************************************************************************)
(* Claims about uploads and records                                        *)
(***************************************************************************)

\* C3: delete_upload by a principal of role user for an upload of another
\* principal returns failure and changes neither uploads nor data; by an
\* admin it returns success and afterwards no uploads row with that id and no
\* data row with that upload_id exists.
C3_DeleteUploadPermission ==
    [][ ( /\ ret'.op = "delete_upload"
          /\ OwnerOf(uploads, ret'.id) \notin {"none", ret'.email} ) =>
        /\ ret'.role = "user" =>
               /\ ret'.res = FALSE
               /\ UNCHANGED <<uploads, data>>
        /\ ret'.role = "admin" =>
               /\ ret'.res = TRUE
               /\ \A u \in uploads' : u.id # ret'.id
               /\ \A r \in data' : r.upload_id # ret'.id ]_vars

\* An admin deletes an upload of another principal that holds records, right
\* after a user who does not own it was refused.
C3_Witness ==
    /\ ret.op = "delete_upload"
    /\ ret.role = "admin"
    /\ ret.owner \notin {"none", ret.email}
    /\ ret.after_refusal
    /\ ret.res = TRUE
    /\ seq.data > 0

\* C4: load_data for a principal of role user returns only records uploaded
\* by that principal, whatever email is passed; for role admin it returns
\* all records.
C4_LoadDataScoped ==
    ret.op = "load_data" =>
        /\ ret.role = "user" => \A r \in ret.res : r.uploaded_by = ret.email
        /\ ret.role = "admin" => ret.res = data

(***************************************************************************)
(* Two processes running the schema synchronisation of init_db at once     *)
(***************************************************************************)
\* Each process runs "for row in registry: ensure_column(data, field, type)"
\* statement by statement.  loc[p].todo holds the registry rows still to
\* visit, loc[p].row the one ensure_column is running for.
NoRow == [field |-> "", field_type |-> ""]

\* init_db reaches the loop with the registry seeded and read.
SyncStart(p) ==
    /\ pc[p] = "idle"
    /\ pc' = [pc EXCEPT ![p] = "loop"]
    /\ loc' = [loc EXCEPT ![p] = [todo |-> registry, row |-> NoRow]]
    /\ UNCHANGED <<backend, schemaVars, uploadVars, frameVars, ret>>

\* The next row of the loop: ensure_column is entered, or the loop ends.
SyncNext(p) ==
    /\ pc[p] = "loop"
    /\ IF loc[p].todo = {}
       THEN /\ pc' = [pc EXCEPT ![p] = "done"]
            /\ UNCHANGED loc
       ELSE \E row \in loc[p].todo :
               /\ loc' = [loc EXCEPT ![p] = [todo |-> loc[p].todo \ {row},
                                             row |-> row]]
               /\ pc' = [pc EXCEPT ![p] = IF backend = "postgres"
                                          THEN "pg_alter" ELSE "pragma"]
    /\ UNCHANGED <<backend, schemaVars, uploadVars, frameVars, ret>>

\* sqlite: PRAGMA table_info and the test "column not in existing".
SqlitePragma(p) ==
    /\ pc[p] = "pragma"
    /\ pc' = [pc EXCEPT ![p] = IF loc[p].row.field \in ColNames(columns)
                               THEN "loop" ELSE "alter"]
    /\ UNCHANGED <<backend, schemaVars, uploadVars, loc, frameVars, ret>>

\* sqlite: ALTER TABLE ADD COLUMN.  "duplicate column name" is raised when the
\* column exists by now; nothing catches it, in ensure_column or in init_db.
SqliteAlter(p) ==
    /\ pc[p] = "alter"
    /\ IF loc[p].row.field \in ColNames(columns)
       THEN /\ pc' = [pc EXCEPT ![p] = "failed"]
            /\ UNCHANGED columns
       ELSE /\ columns' = columns \cup {[name |-> loc[p].row.field,
                                         type |-> loc[p].row.field_type]}
            /\ pc' = [pc EXCEPT ![p] = "loop"]
    /\ UNCHANGED <<backend, registry, fields_list, pend, uploadVars, loc,
                   frameVars, ret>>

\* postgres: ALTER TABLE ADD COLUMN inside try/except: pass.
PgAlter(p) ==
    /\ pc[p] = "pg_alter"
    /\ columns' = IF loc[p].row.field \in ColNames(columns)
                  THEN columns
                  ELSE columns \cup {[name |-> loc[p].row.field,
                                      type |-> loc[p].row.field_type]}
    /\ pc' = [pc EXCEPT ![p] = "loop"]
    /\ UNCHANGED <<backend, registry, fields_list, pend, uploadVars, loc,
                   frameVars, ret>>

\* A new database: the tables are created and the registry is seeded, the
\* data table has its four base columns.
InitSync ==
    /\ backend \in Backends
    /\ registry = init_db_registry({})
    /\ columns = BaseColumns(backend)
    /\ fields_list = {}
    /\ pend = {}
    /\ UploadIdle /\ FrameIdle
    /\ pc = [p \in Procs |-> "idle"]
    /\ loc = [p \in Procs |-> [todo |-> {}, row |-> NoRow]]
    /\ ret = NoRet

NextSync ==
    \/ \E p \in Procs : SyncStart(p)
    \/ \E p \in Procs : SyncNext(p)
    \/ \E p \in Procs : SqlitePragma(p)
    \/ \E p \in Procs : SqliteAlter(p)
    \/ \E p \in Procs : PgAlter(p)

SpecSync == InitSync /\ [][NextSync]_vars

\* C5: when two processes run the schema synchronisation concurrently, under
\* every interleaving and on both backends, no process fails, and when both
\* are done the columns are those a single sequential run produces.
C5_ConcurrentSyncSucceeds ==
    /\ \A p \in Procs : pc[p] # "failed"
    /\ (\A p \in Procs : pc[p] = "done") =>
           columns = init_db_columns(registry, BaseColumns(backend))

(***************************************************************************)
(* Frames and cell values                                                  *)
(***************************************************************************)
\* A DataFrame: the column labels in order (a label may occur twice), the rows
\* as sequences of cells aligned with the labels; raised names the exception
\* a function ended with instead of returning a frame.
Frame(cols, rows) == [cols |-> cols, rows |-> rows, raised |-> "none"]

Raised(e) == [cols |-> <<>>, rows |-> <<>>, raised |-> e]

\* Cell values.  A text is a sequence of characters.  A number n stands for
\* n/2, so that 3 is the non-integral 1.5 and 4 is 2.  None (a column added by
\* df[f] = None) and NaN (an empty spreadsheet cell)
\* are the two nulls; NA is the null of the Int64 dtype.
PyNone == [k |-> "None", s |-> <<>>, n |-> 0]

NaN == [k |-> "NaN", s |-> <<>>, n |-> 0]

NA == [k |-> "NA", s |-> <<>>, n |-> 0]

Text(s) == [k |-> "str", s |-> s, n |-> 0]

Num(n) == [k |-> "num", s |-> <<>>, n |-> n]

IsNull(v) == v.k \in {"None", "NaN", "NA"}

Digit(d) == <<"0", "1", "2", "3", "4", "5", "6", "7", "8", "9">>[d + 1]

RECURSIVE Digits(_)
Digits(n) == IF n < 10 THEN <<Digit(n)>> ELSE Digits(n \div 10) \o <<Digit(n % 10)>>

\* str(v), as Series.astype(str) applies it: None gives "None", NaN gives
\* "nan", an integer its digits, a float its digits and fraction.
PyStr(v) ==
    CASE v.k = "None" -> <<"N", "o", "n", "e">>
      [] v.k = "NaN" -> <<"n", "a", "n">>
      [] v.k = "NA" -> <<"<", "N", "A", ">">>
      [] v.k = "str" -> v.s
      [] v.k = "num" -> IF v.n % 2 = 0 THEN Digits(v.n \div 2)
                        ELSE Digits(v.n \div 2) \o <<".", "5">>

LowerChar(c) ==
    CASE c = "A" -> "a"
      [] c = "B" -> "b"
      [] c = "N" -> "n"
      [] OTHER -> c

\* str.lower()
Lower(s) == [i \in DOMAIN s |-> LowerChar(s[i])]

\* str.strip()
RECURSIVE StripLeft(_)
StripLeft(s) == IF s # <<>> /\ Head(s) = " " THEN StripLeft(Tail(s)) ELSE s

RECURSIVE StripRight(_)
StripRight(s) ==
    IF s # <<>> /\ s[Len(s)] = " " THEN StripRight(SubSeq(s, 1, Len(s) - 1)) ELSE s

Strip(s) == StripRight(StripLeft(s))

\* sub occurs in s
Contains(s, sub) ==
    \E i \in 0..(Len(s) - Len(sub)) : SubSeq(s, i + 1, i + Len(sub)) = sub

Count(cols, c) == Cardinality({i \in DOMAIN cols : cols[i] = c})

ColIndex(cols, c) == CHOOSE i \in DOMAIN cols : cols[i] = c

(***************************************************************************)
(* apply_mapping_rules                                                     *)
(***************************************************************************)
\* The mask of one rule on the stringified cell.  The source text of a
\* contains rule is a regular expression; the model's texts hold no special
\* character, so it matches as a case-insensitive substring.
RuleMatches(r, v) ==
    IF r.match_type = "equals"
    THEN Lower(Strip(PyStr(v))) = Lower(Strip(r.source_text))
    ELSE Contains(Lower(PyStr(v)), Lower(r.source_text))

\* One iteration of the loop over the rules, on the frame as it is by now.
\* df2[field] of a label that occurs twice is a DataFrame, which has no .str.
ApplyRule(f, r) ==
    IF f.raised # "none" \/ Count(f.cols, r.field) = 0 THEN f
    ELSE IF Count(f.cols, r.field) > 1 THEN Raised("AttributeError")
    ELSE LET c == ColIndex(f.cols, r.field)
         IN Frame(f.cols,
                  [i \in DOMAIN f.rows |->
                      IF RuleMatches(r, f.rows[i][c])
                      THEN [f.rows[i] EXCEPT ![c] = Text(r.target_text)]
                      ELSE f.rows[i]])

RECURSIVE ApplyRulesFrom(_, _, _)
ApplyRulesFrom(f, rs, i) ==
    IF i > Len(rs) THEN f ELSE ApplyRulesFrom(ApplyRule(f, rs[i]), rs, i + 1)

\* The loop with the rules taken last to first.
apply_mapping_rules_reversed(f, rs) ==
    ApplyRulesFrom(f, [j \in DOMAIN rs |-> rs[Len(rs) + 1 - j]], 1)

apply_mapping_rules(f, rs) == ApplyRulesFrom(f, rs, 1)

\* Frames and rules the rule application is checked on.
MaxRows == 2

MaxRules == 2

Banana == <<"b", "a", "n", "a", "n", "a">>

RuleCells == {Text(Banana), Text(<<"A">>), Text(<<" ", "B", " ">>), PyNone, NaN}

Rule(field, mt, src, tgt) ==
    [field |-> field, match_type |-> mt, source_text |-> src, target_text |-> tgt]

RuleSet ==
    { Rule("X", "contains", <<"a">>, <<"A">>),
      Rule("X", "equals", <<"A">>, <<"B">>),
      Rule("X", "equals", <<"b">>, <<"a">>),
      Rule("X", "contains", <<"n", "o">>, <<"B">>),
      Rule("X", "contains", <<"N", "A">>, <<"A">>),
      Rule("Z", "contains", <<"a">>, <<"B">>) }

SeqsUpTo(S, n) == UNION {[1..k -> S] : k \in 0..n}

\* One-column frames with the column X.
RuleFrames == {Frame(<<"X">>, [i \in DOMAIN cs |-> <<cs[i]>>]) :
                  cs \in SeqsUpTo(RuleCells, MaxRows)}

InitRules ==
    /\ backend = "sqlite"
    /\ SchemaInit
    /\ UploadIdle /\ ProcIdle
    /\ df \in RuleFrames
    /\ rules \in SeqsUpTo(RuleSet, MaxRules)
    /\ filters = <<>>
    /\ out = NoFrame
    /\ ret = NoRet

ApplyMappingRules ==
    /\ ret.op = "none"
    /\ out' = apply_mapping_rules(df, rules)
    /\ ret' = [op |-> "apply_mapping_rules", res |-> out'.raised]
    /\ UNCHANGED <<backend, schemaVars, uploadVars, procVars, df, rules, filters>>

NextRules == ApplyMappingRules

SpecRules == InitRules /\ [][NextRules]_vars

\* The cell of row i of the one-column frame f.
Cell(f, i) == f.rows[i][1]

\* C6: the rules are applied one after another in the order given, each to
\* the current content of the column: after a first rule, a second rule on
\* the same field overwrites exactly the cells that match it as the first
\* rule left them; the rules [contains a -> A, equals A -> B] turn the cell
\* "banana" into "B".
C6_RulesLayerInOrder ==
    ret.op = "apply_mapping_rules" =>
        /\ (Len(rules) = 2 /\ rules[1].field = "X" /\ rules[2].field = "X") =>
               \A i \in DOMAIN df.rows :
                   LET first == IF RuleMatches(rules[1], Cell(df, i))
                                THEN Text(rules[1].target_text)
                                ELSE Cell(df, i)
                   IN Cell(out, i) = IF RuleMatches(rules[2], first)
                                     THEN Text(rules[2].target_text)
                                     ELSE first
        /\ rules = << Rule("X", "contains", <<"a">>, <<"A">>),
                      Rule("X", "equals", <<"A">>, <<"B">>) >> =>
               \A i \in DOMAIN df.rows :
                   Cell(df, i) = Text(Banana) => Cell(out, i) = Text(<<"B">>)

\* The two rules of the example were applied to a frame holding "banana".
C6_Witness ==
    /\ ret.op = "apply_mapping_rules"
    /\ rules = << Rule("X", "contains", <<"a">>, <<"A">>),
                  Rule("X", "equals", <<"A">>, <<"B">>) >>
    /\ \E i \in DOMAIN df.rows :
           Cell(df, i) = Text(Banana) /\ Cell(out, i) = Text(<<"B">>)

(***************************************************************************)
(* coerce_types                                                            *)
(***************************************************************************)
IsDigit(c) == \E d \in 0..9 : Digit(d) = c

DigitVal(c) == CHOOSE d \in 0..9 : Digit(d) = c

RECURSIVE DigitsValue(_)
DigitsValue(s) ==
    IF s = <<>> THEN 0
    ELSE 10 * DigitsValue(SubSeq(s, 1, Len(s) - 1)) + DigitVal(s[Len(s)])

AllDigits(s) == s # <<>> /\ \A i \in DOMAIN s : IsDigit(s[i])

\* The texts pd.to_numeric parses in the model: digits, or digits and ".5".
Parses(s) ==
    \/ AllDigits(s)
    \/ /\ Len(s) > 2
       /\ SubSeq(s, Len(s) - 1, Len(s)) = <<".", "5">>
       /\ AllDigits(SubSeq(s, 1, Len(s) - 2))

ParsedValue(s) ==
    IF AllDigits(s) THEN Num(2 * DigitsValue(s))
    ELSE Num(2 * DigitsValue(SubSeq(s, 1, Len(s) - 2)) + 1)

\* pd.to_numeric(errors="coerce") on one cell
to_numeric(v) ==
    CASE v.k = "num" -> v
      [] v.k = "str" -> IF Parses(v.s) THEN ParsedValue(v.s) ELSE NaN
      [] OTHER -> NaN

IsIntegral(v) == v.k = "num" /\ v.n % 2 = 0

Column(f, c) == [i \in DOMAIN f.rows |-> f.rows[i][c]]

SetColumn(f, c, vals) ==
    Frame(f.cols, [i \in DOMAIN f.rows |-> [f.rows[i] EXCEPT ![c] = vals[i]]])

\* df2[col] = pd.to_numeric(df2[col], errors="coerce").astype("Int64"):
\* to_numeric of a label that occurs twice (a DataFrame) raises TypeError, and
\* so does the cast of a non-integral number to Int64.
CoerceIdentity(f, col) ==
    IF f.raised # "none" \/ Count(f.cols, col) = 0 THEN f
    ELSE IF Count(f.cols, col) > 1 THEN Raised("TypeError")
    ELSE LET c == ColIndex(f.cols, col)
             nums == [i \in DOMAIN f.rows |-> to_numeric(f.rows[i][c])]
         IN IF \E i \in DOMAIN nums : nums[i].k = "num" /\ ~IsIntegral(nums[i])
            THEN Raised("TypeError")
            ELSE SetColumn(f, c, [i \in DOMAIN nums |->
                                     IF nums[i].k = "NaN" THEN NA ELSE nums[i]])

\* df2[col] = pd.to_numeric(df2[col], errors="coerce").fillna(0)
CoerceNumeric(f, col) ==
    IF f.raised # "none" \/ Count(f.cols, col) = 0 THEN f
    ELSE IF Count(f.cols, col) > 1 THEN Raised("TypeError")
    ELSE LET c == ColIndex(f.cols, col)
             nums == [i \in DOMAIN f.rows |-> to_numeric(f.rows[i][c])]
         IN SetColumn(f, c, [i \in DOMAIN nums |->
                                IF nums[i].k = "NaN" THEN Num(0) ELSE nums[i]])

RECURSIVE CoerceIdentityCols(_, _)
CoerceIdentityCols(f, todo) ==
    IF todo = {} THEN f
    ELSE LET col == CHOOSE c \in todo : TRUE
         IN CoerceIdentityCols(CoerceIdentity(f, col), todo \ {col})

RECURSIVE CoerceNumericCols(_, _)
CoerceNumericCols(f, todo) ==
    IF todo = {} THEN f
    ELSE LET col == CHOOSE c \in todo : TRUE
         IN CoerceNumericCols(CoerceNumeric(f, col), todo \ {col})

coerce_types(f) ==
    CoerceNumericCols(CoerceIdentityCols(f, IDENTITY_FIELDS), DEFAULT_NUMERIC_FIELDS)

\* Frames the coercion is checked on: an identity field, a declared numeric
\* field and a text field.
CoerceCells ==
    {Text(<<"a", "b", "c">>), Text(<<"1", "2">>), Num(3), Num(0), PyNone, NaN}

FramesOver(cols, cells, n) ==
    {Frame(cols, rs) : rs \in SeqsUpTo([DOMAIN cols -> cells], n)}

CoerceFrames ==
    FramesOver(<<"God", "Zakupki_kolvo">>, CoerceCells, MaxRows)
        \cup FramesOver(<<"Yur_lico", "Mesyac">>, CoerceCells, MaxRows)

InitCoerce ==
    /\ backend = "sqlite"
    /\ SchemaInit
    /\ UploadIdle /\ ProcIdle
    /\ df \in CoerceFrames
    /\ rules = <<>>
    /\ filters = <<>>
    /\ out = NoFrame
    /\ ret = NoRet

CoerceTypes ==
    /\ ret.op = "none"
    /\ out' = coerce_types(df)
    /\ ret' = [op |-> "coerce_types", res |-> out'.raised]
    /\ UNCHANGED <<backend, schemaVars, uploadVars, procVars, df, rules, filters>>

NextCoerce == CoerceTypes

SpecCoerce == InitCoerce /\ [][NextCoerce]_vars

Unparseable(v) == v.k = "str" /\ ~Parses(v.s)

\* C7: coerce_types maps an unparseable value in an identity field to null,
\* never to 0 and never to an error, and an unparseable or missing value in
\* a declared numeric field to 0, never to null.
C7_CoercionPolicies ==
    ret.op = "coerce_types" =>
        \A i \in DOMAIN df.rows, c \in DOMAIN df.cols :
            /\ (df.cols[c] \in IDENTITY_FIELDS /\ Unparseable(df.rows[i][c])) =>
                   /\ out.raised = "none"
                   /\ IsNull(out.rows[i][c])
            /\ ( /\ df.cols[c] \in DEFAULT_NUMERIC_FIELDS
                 /\ Unparseable(df.rows[i][c]) \/ IsNull(df.rows[i][c]) ) =>
                   /\ out.raised = "none" => out.rows[i][c] = Num(0)

\* The part of C7 that holds: whenever coerce_types returns a frame, the
\* unparseable identity cells are null and the unparseable or missing
\* numeric cells are 0; it raises exactly when an identity column holds a
\* non-integral number.
CoerceReturnsPolicies ==
    ret.op = "coerce_types" =>
        /\ out.raised # "none" <=>
               \E i \in DOMAIN df.rows, c \in DOMAIN df.cols :
                   /\ df.cols[c] \in IDENTITY_FIELDS
                   /\ to_numeric(df.rows[i][c]).k = "num"
                   /\ ~IsIntegral(to_numeric(df.rows[i][c]))
        /\ out.raised = "none" =>
               \A i \in DOMAIN df.rows, c \in DOMAIN df.cols :
                   /\ (df.cols[c] \in IDENTITY_FIELDS /\ Unparseable(df.rows[i][c]))
                          => out.rows[i][c] = NA
                   /\ ( /\ df.cols[c] \in DEFAULT_NUMERIC_FIELDS
                        /\ Unparseable(df.rows[i][c]) \/ IsNull(df.rows[i][c]) )
                          => out.rows[i][c] = Num(0)

(***************************************************************************)
(* filter_df                                                               *)
(***************************************************************************)
\* out = out[out[field].isin(values)] for one entry of the filters.  The
\* labels of a frame read from the data table are distinct.
FilterStep(f, flt) ==
    IF flt.values = {} \/ Count(f.cols, flt.field) = 0 THEN f
    ELSE LET c == ColIndex(f.cols, flt.field)
         IN Frame(f.cols, SelectSeq(f.rows, LAMBDA row : row[c] \in flt.values))

\* The same step without the test "not values".
FilterStepStrict(f, flt) ==
    IF Count(f.cols, flt.field) = 0 THEN f
    ELSE LET c == ColIndex(f.cols, flt.field)
         IN Frame(f.cols, SelectSeq(f.rows, LAMBDA row : row[c] \in flt.values))

RECURSIVE FilterFrom(_, _, _)
FilterFrom(f, flts, i) ==
    IF i > Len(flts) THEN f ELSE FilterFrom(FilterStep(f, flts[i]), flts, i + 1)

RECURSIVE FilterStrictFrom(_, _, _)
FilterStrictFrom(f, flts, i) ==
    IF i > Len(flts) THEN f
    ELSE FilterStrictFrom(FilterStepStrict(f, flts[i]), flts, i + 1)

filter_df_strict(f, flts) == FilterStrictFrom(f, flts, 1)

filter_df(f, flts) == FilterFrom(f, flts, 1)

\* The dashboard's frames (two filterable columns of the data table) and
\* filters: each filter field is a column of the frame, its accepted values
\* any subset of the options, the empty one included.
FilterCells == {Text(<<"a">>), Text(<<"b">>), PyNone}

FilterOptions == {Text(<<"a">>), Text(<<"b">>)}

FilterFrames == FramesOver(<<"Region", "Set">>, FilterCells, MaxRows)

FilterMaps ==
    {<<>>}
      \cup {<<[field |-> "Region", values |-> v]>> : v \in SUBSET FilterOptions}
      \cup {<<[field |-> "Set", values |-> v]>> : v \in SUBSET FilterOptions}
      \cup {<<[field |-> "Region", values |-> v], [field |-> "Set", values |-> w]>> :
               v \in SUBSET FilterOptions, w \in SUBSET FilterOptions}

InitFilter ==
    /\ backend = "sqlite"
    /\ SchemaInit
    /\ UploadIdle /\ ProcIdle
    /\ df \in FilterFrames
    /\ rules = <<>>
    /\ filters \in FilterMaps
    /\ out = NoFrame
    /\ ret = NoRet

FilterDf ==
    /\ ret.op = "none"
    /\ out' = filter_df(df, filters)
    /\ ret' = [op |-> "filter_df", res |-> out'.raised]
    /\ UNCHANGED <<backend, schemaVars, uploadVars, procVars, df, rules, filters>>

NextFilter == FilterDf

SpecFilter == InitFilter /\ [][NextFilter]_vars

\* The row passes every filter that has a non-empty accepted set.
RowPasses(f, flts, row) ==
    \A k \in DOMAIN flts :
        flts[k].values # {} => row[ColIndex(f.cols, flts[k].field)] \in flts[k].values

Blank == Text(<<>>)

ITOGO == Text(<<"I", "T", "O", "G", "O">>)

\* DataFrame.sum(numeric_only=True) of one column: a column of numeric dtype
\* (numbers and NaN only) is summed with NaN skipped; a column of any other
\* dtype is left out of the sums, and totals.get(c, 0) is 0 for it.
RECURSIVE SumCells(_, _)
SumCells(cells, i) ==
    IF i > Len(cells) THEN 0
    ELSE (IF cells[i].k = "num" THEN cells[i].n ELSE 0) + SumCells(cells, i + 1)

NumericDtype(cells) ==
    /\ \A i \in DOMAIN cells : cells[i].k \in {"num", "NaN"}
    /\ \E i \in DOMAIN cells : cells[i].k = "num"

ColumnTotal(f, c) ==
    IF NumericDtype(Column(f, c)) THEN Num(SumCells(Column(f, c), 1)) ELSE Num(0)

\* total_row: "" for every column, the sum for the declared numeric ones, the
\* marker under the key Itogo.  The row assignment aligns the dict with the
\* frame's columns, so the marker lands in the column Itogo when there is one.
TotalRow(f) ==
    [c \in DOMAIN f.cols |->
        IF f.cols[c] = "Itogo" THEN ITOGO
        ELSE IF f.cols[c] \in DEFAULT_NUMERIC_FIELDS THEN ColumnTotal(f, c)
        ELSE Blank]

WithTotals(f) ==
    IF \E c \in DOMAIN f.cols : f.cols[c] \in DEFAULT_NUMERIC_FIELDS
    THEN Frame(f.cols, Append(f.rows, TotalRow(f)))
    ELSE f

\* The function without df.copy(): the row is appended to the caller's frame.
compute_totals_row_inplace(f) == [df |-> WithTotals(f), out |-> WithTotals(f)]

\* compute_totals_row: the caller's frame after the call, and the result.
compute_totals_row(f) == [df |-> f, out |-> WithTotals(f)]

\* Base frames as the callers pass them (the parsed frame, the dashboard's
\* filtered frame): numbers or NaN in the declared numeric columns, and a
\* column Itogo, which the registry and the data table always hold.
TotalsCells(col) ==
    IF col \in DEFAULT_NUMERIC_FIELDS THEN {Num(0), Num(3), Num(4), NaN}
    ELSE IF col = "Itogo" THEN {PyNone}
    ELSE {Text(<<"a">>), PyNone}

TypedFrames(cols, n) ==
    {Frame(cols, rs) :
        rs \in SeqsUpTo({r \in [DOMAIN cols -> UNION {TotalsCells(cols[c]) : c \in DOMAIN cols}] :
                            \A c \in DOMAIN cols : r[c] \in TotalsCells(cols[c])}, n)}

TotalsFrames ==
    TypedFrames(<<"Yur_lico", "Zakupki_kolvo", "Prodazhi_kolvo", "Itogo">>, MaxRows)
        \cup TypedFrames(<<"Zakupki_kolvo", "Itogo">>, MaxRows)
        \cup TypedFrames(<<"Yur_lico", "Itogo">>, MaxRows)

InitTotals ==
    /\ backend = "sqlite"
    /\ SchemaInit
    /\ UploadIdle /\ ProcIdle
    /\ df \in TotalsFrames
    /\ rules = <<>>
    /\ filters = <<>>
    /\ out = NoFrame
    /\ ret = NoRet

\* A call with the base frame df; ret keeps the frame as it was passed and
\* the result of the call before this one.
ComputeTotalsRow ==
    /\ ret.op \in {"none", "compute_totals_row"}
    /\ ret.op = "compute_totals_row" => ret.calls < 2
    /\ LET t == compute_totals_row(df)
       IN /\ df' = t.df
          /\ out' = t.out
          /\ ret' = [op |-> "compute_totals_row", res |-> t.out.raised,
                     calls |-> IF ret.op = "none" THEN 1 ELSE ret.calls + 1,
                     base |-> IF ret.op = "none" THEN df ELSE ret.base,
                     previous |-> out]
    /\ UNCHANGED <<backend, schemaVars, uploadVars, procVars, rules, filters>>

NextTotals == ComputeTotalsRow

SpecTotals == InitTotals /\ [][NextTotals]_vars

HasNumericField(f) == \E c \in DOMAIN f.cols : f.cols[c] \in DEFAULT_NUMERIC_FIELDS

\* The sum of column c over the rows of f, nulls counting as nothing.
RECURSIVE RowsSum(_, _, _)
RowsSum(f, c, i) ==
    IF i = 0 THEN 0
    ELSE RowsSum(f, c, i - 1) + (IF f.rows[i][c].k = "num" THEN f.rows[i][c].n ELSE 0)

IMPORT_COLUMNS_23 == <<"God", "Yur_lico">>

\* str(c).strip().lower() in ["god", "year"]
IsYearHeader(c) == c \in {"God", "Year"}

\* The alias table of df.rename(columns={...}), cut to three entries.
Alias(c) ==
    CASE c = "Yuridicheskoe lico" -> "Yur_lico"
      [] c = "Zakupki Kol-vo upakovok" -> "Zakupki_kolvo"
      [] c = "Zakupki kol-vo upakovok" -> "Zakupki_kolvo"
      [] OTHER -> c

\* Header reconciliation: without a year header the columns are renamed by
\* position (df.columns = cols raises ValueError when the frame has more
\* columns than the template), then the aliases are applied.
Reconcile(f) ==
    LET has_year == \E c \in DOMAIN f.cols : IsYearHeader(f.cols[c])
    IN IF ~has_year /\ Len(f.cols) > Len(IMPORT_COLUMNS_23)
       THEN Raised("ValueError")
       ELSE LET named == IF has_year THEN f.cols
                         ELSE SubSeq(IMPORT_COLUMNS_23, 1, Len(f.cols))
            IN [f EXCEPT !.cols = [c \in DOMAIN named |-> Alias(named[c])]]

\* for f in registry: if f not in df.columns: df[f] = None
RECURSIVE CompleteFrom(_, _, _)
CompleteFrom(f, reg_list, i) ==
    IF i > Len(reg_list) THEN f
    ELSE CompleteFrom(
             IF Count(f.cols, reg_list[i]) > 0 THEN f
             ELSE Frame(Append(f.cols, reg_list[i]),
                        [r \in DOMAIN f.rows |-> Append(f.rows[r], PyNone)]),
             reg_list, i + 1)

\* The positions of the columns df[ordered] returns: for each name of ordered
\* in turn, every column that carries the label.
RECURSIVE PositionsOf(_, _)
PositionsOf(cols, c) ==
    IF cols = <<>> THEN <<>>
    ELSE PositionsOf(SubSeq(cols, 1, Len(cols) - 1), c)
             \o (IF cols[Len(cols)] = c THEN <<Len(cols)>> ELSE <<>>)

RECURSIVE Selected(_, _, _)
Selected(cols, ordered, i) ==
    IF i > Len(ordered) THEN <<>>
    ELSE PositionsOf(cols, ordered[i]) \o Selected(cols, ordered, i + 1)

\* ordered = [c for c in registry if c in df.columns]; df = df[ordered]
Project(f, reg_list) ==
    IF f.raised # "none" THEN f
    ELSE LET ordered == SelectSeq(reg_list, LAMBDA c : Count(f.cols, c) > 0)
             pos == Selected(f.cols, ordered, 1)
         IN Frame([k \in DOMAIN pos |-> f.cols[pos[k]]],
                  [r \in DOMAIN f.rows |-> [k \in DOMAIN pos |-> f.rows[r][pos[k]]]])

\* parse_file after read_excel: reg_list is the registry as the SELECT
\* returned it, rs the rules as load_mapping_rules returned them.
parse_file(f, reg_list, rs) ==
    LET named == Reconcile(f)
    IN IF named.raised # "none" THEN named
       ELSE Project(coerce_types(apply_mapping_rules(
                        CompleteFrom(named, reg_list, 1), rs)), reg_list)

\* The orders in which a SELECT without ORDER BY can return the fields.
Perms(S) == {p \in [1..Cardinality(S) -> S] : \A i, j \in DOMAIN p : i # j => p[i] # p[j]}

\* Spreadsheets: header rows as read_excel returns them (distinct names).
ParseHeaders ==
    { <<"God", "Yur_lico", "Zakupki_kolvo">>,
      <<"God", "Yur_lico">>,
      <<"God", "Yuridicheskoe lico", "Yur_lico">>,
      <<"Year", "Extra">>,
      <<"A", "B">>,
      <<"A", "B", "C">>,
      <<>> }

ParseCells == {Text(<<"a", "b", "c">>), Num(4)}

\* A sheet without columns has no rows.
ParseFrames ==
    UNION {FramesOver(h, ParseCells, IF h = <<>> THEN 0 ELSE MaxRows) : h \in ParseHeaders}

ParseRules == {<<>>, <<Rule("Yur_lico", "equals", <<"a", "b", "c">>, <<"B">>)>>}

\* The registry after init_db, alone or with the field Yur_lico added.
ParseRegistries ==
    { init_db_registry({}),
      init_db_registry({[field |-> "Yur_lico", field_type |-> "TEXT"]}) }

InitParse ==
    /\ backend = "sqlite"
    /\ registry \in ParseRegistries
    /\ columns = init_db_columns(registry, BaseColumns(backend))
    /\ fields_list = RegFields(registry)
    /\ pend = {}
    /\ UploadIdle /\ ProcIdle
    /\ df \in ParseFrames
    /\ rules \in ParseRules
    /\ filters = <<>>
    /\ out = NoFrame
    /\ ret = NoRet

ParseFile ==
    /\ ret.op = "none"
    /\ \E reg_list \in Perms(RegFields(registry)) :
           /\ out' = parse_file(df, reg_list, rules)
           /\ ret' = [op |-> "parse_file", res |-> out'.raised,
                      registry |-> reg_list]
    /\ UNCHANGED <<backend, schemaVars, uploadVars, procVars, df, rules, filters>>

NextParse == ParseFile

SpecParse == InitParse /\ [][NextParse]_vars

\* The field names the input provides, after header reconciliation.
InputFields(f) == {Reconcile(f).cols[c] : c \in DOMAIN Reconcile(f).cols}

\* C2: for any input frame and any registry, the frame parse_file returns has
\* as its columns exactly the registry's fields, each once, in registry
\* order; a registry field absent from the input is null in every row, and
\* input columns that are not in the registry are dropped.
C2_ParseFileTotalOverRegistry ==
    ret.op = "parse_file" =>
        /\ out.raised = "none"
        /\ out.cols = ret.registry
        /\ \A c \in DOMAIN out.cols :
               out.cols[c] \notin InputFields(df) =>
                   \A r \in DOMAIN out.rows : IsNull(out.rows[r][c])

(***************************************************************************)
(* Claims about rename and remove of a field                               *)
(***************************************************************************)

\* The registry with the entry of old replaced by new of type t.
Renamed(reg, old, new, t) ==
    {r \in reg : r.field # old} \cup {[field |-> new, field_type |-> t]}

\* C11 as stated: on the backend without native column rename (sqlite), a
\* call update_field_registry(old, new, t) with old registered and new # old
\* completes without raising, replaces old by new with type t in the
\* registry, and leaves the columns of data unchanged.
C11_SqliteRenameSoft_Stated ==
    [][ ( /\ ret'.op = "update_field"
          /\ ret'.res # "exists"
          /\ backend = "sqlite"
          /\ ret'.old \in RegFields(registry)
          /\ ret'.new # ret'.old ) =>
        /\ ret'.res = "ok"
        /\ registry' = Renamed(registry, ret'.old, ret'.new, ret'.type)
        /\ columns' = columns ]_vars

\* C11 amended: the same, for a new name that is not registered yet (a
\* registered new name makes the UPDATE violate the primary key).
C11_SqliteRenameSoft ==
    [][ ( /\ ret'.op = "update_field"
          /\ ret'.res # "exists"
          /\ backend = "sqlite"
          /\ ret'.old \in RegFields(registry)
          /\ ret'.new # ret'.old
          /\ ret'.new \notin RegFields(registry) ) =>
        /\ ret'.res = "ok"
        /\ registry' = Renamed(registry, ret'.old, ret'.new, ret'.type)
        /\ columns' = columns ]_vars

\* A rename on sqlite of a registered field to a free name has returned: the
\* registry holds the new name and the column still carries the old one.
C11_Witness ==
    /\ backend = "sqlite"
    /\ ret.op = "update_field"
    /\ ret.res = "ok"
    /\ ret.found /\ ~ret.taken
    /\ ret.new # ret.old
    /\ ret.new \in RegFields(registry)
    /\ ret.old \notin RegFields(registry)
    /\ ret.old \in ColNames(columns)
    /\ ret.new \notin ColNames(columns)

\* What update_field_registry reports to its caller: it has no return
\* statement, so the caller sees None or the exception that was raised.
Reported(u) == IF u.raised = "none" THEN "None" ELSE u.raised

\* The result u of a rename old -> new where the registry was updated and the
\* column was not renamed, and where both were renamed.
PartialRename(u, cols, old, new) ==
    /\ new \in RegFields(u.registry)
    /\ old \notin RegFields(u.registry)
    /\ u.columns = cols

FullRename(u, cols, old, new) ==
    /\ new \in RegFields(u.registry)
    /\ old \notin RegFields(u.registry)
    /\ old \in ColNames(cols)
    /\ u.columns = RenameColumn(cols, old, new)

\* C12: what update_field_registry reports for a rename on the backend
\* without native column rename (registry updated, column not renamed)
\* differs from what it reports for a rename that fully succeeded, so the
\* caller can tell partial from full success.
C12_PartialSuccessDistinguishable ==
    \A old \in RegFields(registry), new \in FieldNames \ RegFields(registry),
       t \in InputTypes :
        LET partial == update_field_registry("sqlite", registry, columns, old, new, t)
            full == update_field_registry("postgres", registry, columns, old, new, t)
        IN ( /\ PartialRename(partial, columns, old, new)
             /\ FullRename(full, columns, old, new) ) =>
           Reported(partial) # Reported(full)

\* C13: the remove operation for a name of the protected set is rejected
\* with the outcome Protected and leaves the registry unchanged; for any other
\* registered name it removes that name's entry from the registry (and no
\* other entry).
C13_RemoveProtected ==
    [][ ret'.op = "delete_field" =>
          /\ ret'.field \in protected =>
                 /\ ret'.res = "Protected"
                 /\ registry' = registry
          /\ (ret'.field \notin protected /\ ret'.field \in RegFields(registry)) =>
                 /\ ret'.res = "ok"
                 /\ registry' = {r \in registry : r.field # ret'.field}
                 /\ registry' # registry ]_vars

\* The removal of the protected field God has just been rejected, after the
\* field Itogo was removed.
C13_Witness ==
    /\ ret.op = "delete_field"
    /\ ret.res = "Protected"
    /\ ret.field = "God"
    /\ "God" \in RegFields(registry)
    /\ "Itogo" \notin RegFields(registry)

\* C19: a non-protected field removed with delete_field_registry stays absent
\* from fields_registry through later init_db runs, until an add-field or a
\* rename registers the name again; also for a field of TZ_FIELDS_31.  Here:
\* the init_db run that follows the removal does not bring the field back.
C19_RemovedStaysAbsent ==
    [][ ( /\ ret.op = "delete_field"
          /\ ret.res = "ok"
          /\ ret.field \notin RegFields(registry)
          /\ ret'.op = "init_db" ) =>
        ret.field \notin RegFields(registry') ]_vars

(***************************************************************************)
(* Add-field and remove-field on a database that holds records             *)
(***************************************************************************)
\* A record of upload 1 with a value in the column Itogo.
StoredRecord(k, v) ==
    [id |-> k, upload_id |-> 1, uploaded_by |-> "ann@x", Itogo |-> v]

\* The contents of data after one upload of one or two rows.
StoredData ==
    { {StoredRecord(1, "a")},
      {StoredRecord(1, "a"), StoredRecord(2, "b")} }

InitStored ==
    /\ backend \in Backends
    /\ SchemaInit
    /\ uploads = {[id |-> 1, uploaded_by |-> "ann@x"]}
    /\ data \in StoredData
    /\ seq = [uploads |-> 1, data |-> Cardinality(data)]
    /\ ProcIdle /\ FrameIdle
    /\ ret = NoRet

SpecStored == InitStored /\ [][NextAddRemove]_vars

\* C16: delete_field_registry(name) changes only the registry: the columns of
\* data, the column called name included, and every stored record are the
\* same after the call as before; and over any sequence of add-field and
\* remove-field operations the column set of data never shrinks.
C16_RemoveKeepsColumnsAndData ==
    [][ /\ (ret'.op = "delete_field" /\ ret'.res = "ok") =>
               /\ columns' = columns
               /\ data' = data
               /\ uploads' = uploads
        /\ ColNames(columns) \subseteq ColNames(columns') ]_vars

\* The field X was added and then removed: its column is still in data, next
\* to the stored records.
C16_Witness ==
    /\ ret.op = "delete_field"
    /\ ret.res = "ok"
    /\ ret.field = "X"
    /\ "X" \notin RegFields(registry)
    /\ "X" \in ColNames(columns)
    /\ data # {}

(***************************************************************************)
(* Mapping rules and null cells                                            *)
(***************************************************************************)

\* C15: a rule with match_type "contains" never matches a null cell: whatever
\* the source_text, a cell that is null before the rules are applied is still
\* null afterwards.
C15_ContainsSkipsNull ==
    ( /\ ret.op = "apply_mapping_rules"
      /\ \A k \in DOMAIN rules : rules[k].match_type = "contains" ) =>
        \A i \in DOMAIN df.rows :
            IsNull(Cell(df, i)) => IsNull(Cell(out, i))

(***************************************************************************)
(* Concurrent sessions: ingestion and delete_upload statement by statement *)
(***************************************************************************)
\* Each execute_query call opens a connection, runs one statement and
\* commits, so the statements of two sessions interleave freely.
MaxIngests == 2

MaxRecords == 1

\* The sessions' users: the admin and one account of role user.
ConcUsers == {u \in Users : u.email \in {"admin@local", "ann@x"}}

Idle == [op |-> "none"]

MaxId(ups) == CHOOSE m \in {u.id : u \in ups} : \A u \in ups : u.id <= m

\* save_upload, the INSERT.  sqlite3 gives the new row's id as
\* cursor.lastrowid; the psycopg2 cursor has the attribute but no row id for
\* a table without OIDs (None or 0), so save_upload goes on to SELECT MAX(id).
InsertUpload(p, user, n) ==
    /\ pc[p] = "idle"
    /\ seq.uploads < MaxIngests
    /\ LET u == save_upload(uploads, seq, user.email)
       IN /\ uploads' = u.uploads
          /\ seq' = u.seq
          /\ pc' = [pc EXCEPT ![p] = IF backend = "sqlite" THEN "save_data"
                                     ELSE "select_max"]
          /\ loc' = [loc EXCEPT ![p] =
                        [op |-> "save", email |-> user.email, n |-> n,
                         own |-> u.upload_id,
                         upload_id |-> IF backend = "sqlite" THEN u.upload_id
                                       ELSE 0]]
    /\ ret' = ret
    /\ UNCHANGED <<backend, schemaVars, data, frameVars>>

\* save_upload, the fallback: SELECT MAX(id) FROM uploads.  On an empty
\* table max_id is NULL and int() raises.
SelectMaxId(p) ==
    /\ pc[p] = "select_max"
    /\ IF uploads = {}
       THEN /\ pc' = [pc EXCEPT ![p] = "idle"]
            /\ loc' = [loc EXCEPT ![p] = Idle]
            /\ ret' = [op |-> "save_failed", res |-> "TypeError"]
       ELSE /\ pc' = [pc EXCEPT ![p] = "save_data"]
            /\ loc' = [loc EXCEPT ![p].upload_id = MaxId(uploads)]
            /\ ret' = ret
    /\ UNCHANGED <<backend, schemaVars, uploadVars, frameVars>>

\* save_data with the id save_upload returned.
SaveData(p) ==
    /\ pc[p] = "save_data"
    /\ LET d == save_data(data, seq, loc[p].n, loc[p].upload_id, loc[p].email)
       IN /\ data' = d.data
          /\ seq' = d.seq
    /\ columns' = EnsureFrameColumns(columns, RegFields(registry))
    /\ pc' = [pc EXCEPT ![p] = "idle"]
    /\ loc' = [loc EXCEPT ![p] = Idle]
    /\ ret' = [op |-> "save", res |-> loc[p].upload_id, own |-> loc[p].own]
    /\ UNCHANGED <<backend, registry, fields_list, pend, uploads, frameVars>>

\* delete_upload, the ownership check of role user.
DeleteCheck(p, user, upload_to_delete) ==
    /\ pc[p] = "idle"
    /\ IF delete_upload(uploads, data, upload_to_delete, user.email, user.role).res
       THEN /\ pc' = [pc EXCEPT ![p] = "delete_data"]
            /\ loc' = [loc EXCEPT ![p] = [op |-> "delete", id |-> upload_to_delete,
                                          removed |-> 0]]
            /\ ret' = ret
       ELSE /\ ret' = [op |-> "delete_upload", res |-> FALSE,
                       id |-> upload_to_delete]
            /\ UNCHANGED procVars
    /\ UNCHANGED <<backend, schemaVars, uploadVars, frameVars>>

\* DELETE FROM data WHERE upload_id=%s
DeleteData(p) ==
    /\ pc[p] = "delete_data"
    /\ data' = {r \in data : r.upload_id # loc[p].id}
    /\ pc' = [pc EXCEPT ![p] = "delete_uploads"]
    /\ loc' = [loc EXCEPT ![p].removed = Cardinality(data \ data')]
    /\ ret' = ret
    /\ UNCHANGED <<backend, schemaVars, uploads, seq, frameVars>>

\* DELETE FROM uploads WHERE id=%s
DeleteUploads(p) ==
    /\ pc[p] = "delete_uploads"
    /\ uploads' = {u \in uploads : u.id # loc[p].id}
    /\ pc' = [pc EXCEPT ![p] = "idle"]
    /\ loc' = [loc EXCEPT ![p] = Idle]
    /\ ret' = [op |-> "delete_upload", res |-> TRUE, id |-> loc[p].id]
    /\ UNCHANGED <<backend, schemaVars, data, seq, frameVars>>

\* The script of a session dies between two statements (the process is
\* killed, or the next statement's connection fails).
Crash(p) ==
    /\ pc[p] # "idle"
    /\ pc' = [pc EXCEPT ![p] = "idle"]
    /\ loc' = [loc EXCEPT ![p] = Idle]
    /\ ret' = [op |-> "crash", at |-> pc[p], was |-> loc[p]]
    /\ UNCHANGED <<backend, schemaVars, uploadVars, frameVars>>

InitConc ==
    /\ backend \in Backends
    /\ SchemaInit
    /\ UploadIdle /\ ProcIdle /\ FrameIdle
    /\ ret = NoRet

NextConc ==
    \/ \E p \in Procs, u \in ConcUsers, n \in 0..MaxRecords : InsertUpload(p, u, n)
    \/ \E p \in Procs : SelectMaxId(p)
    \/ \E p \in Procs : SaveData(p)
    \/ \E p \in Procs, u \in ConcUsers, i \in 1..MaxIngests : DeleteCheck(p, u, i)
    \/ \E p \in Procs : DeleteData(p)
    \/ \E p \in Procs : DeleteUploads(p)
    \/ \E p \in Procs : Crash(p)

SpecConc == InitConc /\ [][NextConc]_vars

(***************************************************************************)
(* Claims about concurrent ingestion and deletion                          *)
(***************************************************************************)
UploadIds == {u.id : u \in uploads}

\* C14: delete_upload removes an upload and its records as a unit: in no
\* reachable state, the state between its two DELETE statements (seen by a
\* concurrent reader) and the state after a crash between them included, have
\* the records of an upload been deleted while the upload row still exists.
C14_DeleteUploadAtomic ==
    /\ \A p \in Procs :
           ~ ( /\ pc[p] = "delete_uploads"
               /\ loc[p].removed > 0
               /\ loc[p].id \in UploadIds )
    /\ ~ ( /\ ret.op = "crash"
           /\ ret.at = "delete_uploads"
           /\ ret.was.removed > 0
           /\ ret.was.id \in UploadIds )

\* C17: save_upload returns the id of the uploads row that the same call
\* inserted, on both backends and under every interleaving of two concurrent
\* calls, so save_data attaches the records to the caller's own upload.
C17_SaveUploadReturnsOwnId ==
    /\ \A p \in Procs :
           pc[p] = "save_data" => loc[p].upload_id = loc[p].own
    /\ ret.op = "save" => ret.res = ret.own

\* C18: in every reachable state, under any interleaving of ingestions and
\* delete_upload calls of concurrent sessions, every record of data has an
\* upload_id that names an existing row of uploads.
C18_NoOrphanRecords ==
    \A r \in data : r.upload_id \in UploadIds

====
